---- MODULE Spec2Model ----
(***************************************************************************)
(* Model of generate_release_files.py: the batch job that parses the      *)
(* category input files, fetches the latest release tag of every entry,   *)
(* normalizes the tag, writes one manifest per category and prints a      *)
(* summary.  Python strings are sequences of one-character strings.       *)
(***************************************************************************)
EXTENDS Integers, Sequences, FiniteSets, TLC

VARIABLES
    pc,              \* position of the run inside main / generate_release_ini
    ci,              \* index (1..4) of the category block main is at
    input,           \* per category: what main found at its input path
    entries,         \* entries of the current category (parse_ini_file result)
    i,               \* loop index of "for i, entry in enumerate(entries)"
    tag,             \* value returned by the last get_latest_tag call
    printed,         \* diagnostic of the get_latest_tag call of this iteration
    inflight,        \* number of requests issued and not yet answered
    slept,           \* milliseconds the run has spent in time.sleep
    config,          \* options of the ConfigParser section, in insertion order
    success_count,
    failure_count,
    failed_entries,
    outfile,         \* per category: the lines of its output file on disk
    buffer,          \* lines written to the open output file, not on disk
    all_results,
    summary,         \* totals printed by the final summary
    log,             \* sleep / request / response / write events, in order
    raw,             \* tag normalizer: the raw tag handed in
    clean_tag,       \* tag normalizer: the normalized version
    written,         \* manifest writer: the mapping set on the parser
    text,            \* manifest writer: the lines written to the file
    readback         \* result of parsing text with the same parser

vars == <<pc, ci, input, entries, i, tag, printed, inflight, slept, config,
          success_count, failure_count, failed_entries, outfile, buffer,
          all_results, summary, log, raw, clean_tag, written, text, readback>>

runVars == <<pc, ci, input, entries, i, tag, printed, inflight, slept, config,
             success_count, failure_count, failed_entries, outfile, buffer,
             all_results, summary, log>>
normVars == <<raw, clean_tag>>
rtVars == <<written, text, readback>>

(***************************************************************************)
(* Bounds of the model.                                                    *)
(***************************************************************************)
MaxSections == 2       \* sections per input file
MaxTotalEntries == 3   \* entries fetched in one run, over all categories
MaxLeadV == 2          \* leading "v" characters of a raw tag
MaxParts == 3          \* dash-separated parts of a raw tag
MaxKeyLen == 2         \* characters of an entry name in the manifest
MaxKeys == 2           \* options of a manifest

(***************************************************************************)
(* Sequence helpers.                                                       *)
(***************************************************************************)
Range(s) == {s[k] : k \in 1..Len(s)}
Take(s, n) == SubSeq(s, 1, IF n < Len(s) THEN n ELSE Len(s))
Drop(s, n) == SubSeq(s, n + 1, Len(s))
Last(s) == s[Len(s)]

RECURSIVE SeqsUpTo(_, _)
SeqsUpTo(S, n) ==
    IF n = 0 THEN {<<>>}
    ELSE LET shorter == SeqsUpTo(S, n - 1)
         IN shorter \cup {Append(s, x) : s \in shorter, x \in S}

RECURSIVE SumSeq(_)
SumSeq(s) == IF s = <<>> THEN 0 ELSE s[1] + SumSeq(Tail(s))

(***************************************************************************)
(* Python values that a JSON field or a return value can hold.             *)
(***************************************************************************)
PyNone == [ty |-> "None", s |-> <<>>]
PyStr(s) == [ty |-> "str", s |-> s]
PyInt == [ty |-> "int", s |-> <<"7">>]
Absent == [ty |-> "absent", s |-> <<>>]

\* "if tag:" -- line 125
Truthy(v) == \/ v.ty = "str" /\ v.s # <<>>
             \/ v.ty = "int"

(***************************************************************************)
(* Categories, in the order of the four blocks of main.                    *)
(***************************************************************************)
\* Variant: main with its first two blocks exchanged.
Categories_swapped == <<"overlays", "sysmodules", "apps", "emulatoren">>

Categories == <<"sysmodules", "overlays", "apps", "emulatoren">>
NumCategories == Len(Categories)

Versions == <<"V", "e", "r", "s", "i", "o", "n", "s">>
ReleaseInfo == <<"R", "e", "l", "e", "a", "s", "e", " ", "I", "n", "f", "o">>

SectionName(category) ==
    IF category \in {"sysmodules", "overlays", "apps", "emulatoren"}
    THEN Versions ELSE ReleaseInfo

(***************************************************************************)
(* Config Reader.  A file is a sequence of sections; the body of a section *)
(* holds no API URL, an API URL the extractor does not match, or the       *)
(* release-listing URL of owner/repo.                                      *)
(***************************************************************************)
Names == {<<"A">>, <<"B">>}
NoUrl == [kind |-> "none", owner |-> <<>>, repo |-> <<>>]
BadUrl == [kind |-> "nomatch", owner |-> <<>>, repo |-> <<>>]
GoodUrl == [kind |-> "releases", owner |-> <<"o">>, repo |-> <<"r">>]
Bodies == {NoUrl, BadUrl, GoodUrl}
SectionSet == [name : Names, body : Bodies]

extract_repo_from_url(url) ==
    IF url.kind = "releases" THEN PyStr(<<url.owner, url.repo>>) ELSE PyNone

\* The entries of the sections file[n..], in section order.  An entry keeps
\* the index of the section it was made from.
RECURSIVE parse_sections(_, _)
parse_sections(file, n) ==
    IF n > Len(file) THEN <<>>
    ELSE LET sec == file[n]
             rest == parse_sections(file, n + 1)
             repo_info == extract_repo_from_url(sec.body)
         IN IF sec.body.kind # "none" /\ repo_info # PyNone
            THEN <<[name |-> sec.name, owner |-> repo_info.s[1],
                    repo |-> repo_info.s[2], section |-> n]>> \o rest
            ELSE rest

parse_ini_file(file) == parse_sections(file, 1)

InputFiles == SeqsUpTo(SectionSet, MaxSections)

\* What parse_ini_file can return for the files of the model.
ParsedInputs == {parse_ini_file(file) : file \in InputFiles}

(***************************************************************************)
(* Release Fetcher.  What the remote end does with the one request is an   *)
(* outcome: a JSON array of release objects, an HTTP error status, or any  *)
(* other failure (timeout, connection error, malformed or non-array body). *)
(***************************************************************************)
\* A lone surrogate, the character a JSON body spells "\ud800": Python holds
\* it in a str and no utf-8 encoder accepts it.
Surrogate == "U+D800"
TagStrings == {<<"v", "1">>, <<"1", "%">>, <<Surrogate>>}
FieldValues == {Absent, PyNone, PyInt} \cup {PyStr(t) : t \in TagStrings}
NameValues == {Absent, PyStr(<<"v", "1">>)}
Releases == [tag_name : FieldValues, name : NameValues]

HttpCodes == {403, 404, 500}
Outcomes ==
    {[kind |-> "json", code |-> 200, releases |-> rs] :
        rs \in {<<>>} \cup {<<r>> : r \in Releases}}
    \cup {[kind |-> "http", code |-> c, releases |-> <<>>] : c \in HttpCodes}
    \cup {[kind |-> "error", code |-> 0, releases |-> <<>>]}

\* dict.get(key, default) on a release object
DictGet(field, default) == IF field = Absent THEN default ELSE field

\* The value get_latest_tag returns for an outcome of its request.
get_latest_tag(outcome) ==
    IF outcome.kind = "json" /\ Len(outcome.releases) > 0
    THEN DictGet(outcome.releases[1].tag_name,
                 DictGet(outcome.releases[1].name, PyStr(<<>>)))
    ELSE PyNone

\* The diagnostic get_latest_tag prints for an outcome ("" when it prints none).
Diagnostic(outcome) ==
    IF outcome.kind = "http"
    THEN IF outcome.code = 403 THEN "Rate limit exceeded"
         ELSE IF outcome.code = 404 THEN "Repository not found"
         ELSE "HTTP status"
    ELSE IF outcome.kind = "error" THEN "Error"
    ELSE ""

(***************************************************************************)
(* Tag Normalizer: lines 127-139 of generate_release_ini.                  *)
(***************************************************************************)
DisplayMax == 30
HashMin == 20
ShortHash == 7

RECURSIVE lstrip_v(_)
lstrip_v(s) ==
    IF s # <<>> /\ Head(s) = "v" THEN lstrip_v(Tail(s)) ELSE s

\* str.split('-')
RECURSIVE split_dash(_)
split_dash(s) ==
    IF "-" \notin Range(s) THEN <<s>>
    ELSE LET k == CHOOSE j \in 1..Len(s) :
                     s[j] = "-" /\ \A m \in 1..(j - 1) : s[m] # "-"
         IN <<SubSeq(s, 1, k - 1)>> \o split_dash(Drop(s, k))

\* Variant: the rebuilt tag starts with the first part, not the second-to-last.
HashRebuild_first(parts) ==
    parts[1] \o <<"-">> \o Take(Last(parts), ShortHash)

HashRebuild(parts) ==
    IF Len(parts) > 1
    THEN parts[Len(parts) - 1] \o <<"-">> \o Take(Last(parts), ShortHash)
    ELSE Take(Last(parts), ShortHash)

Normalize(t) ==
    LET stripped == lstrip_v(t)
    IN IF Len(stripped) > DisplayMax
       THEN IF "-" \in Range(stripped)
            THEN LET parts == split_dash(stripped)
                 IN IF Len(parts) > 1 /\ Len(Last(parts)) > HashMin
                    THEN HashRebuild(parts)
                    ELSE Take(stripped, DisplayMax)
            ELSE Take(stripped, DisplayMax)
       ELSE stripped

(***************************************************************************)
(* Manifest Writer: the ConfigParser of lines 95-96, its set (line 140)    *)
(* and its write (line 150).  A parser section is a sequence of options    *)
(* [k, v] in insertion order.  Values of the model hold no "(", so the     *)
(* only interpolation syntax that can occur is the "%%" escape.            *)
(***************************************************************************)
optionxform(key) == key

RECURSIVE RemoveEscapes(_)
RemoveEscapes(s) ==
    IF Len(s) < 2 THEN s
    ELSE IF s[1] = "%" /\ s[2] = "%" THEN RemoveEscapes(Drop(s, 2))
    ELSE <<s[1]>> \o RemoveEscapes(Tail(s))

\* BasicInterpolation.before_set raises ValueError
InvalidInterpolation(value) == "%" \in Range(RemoveEscapes(value))

IndexOfKey(cfg, key) ==
    IF \E k \in 1..Len(cfg) : cfg[k].k = key
    THEN CHOOSE k \in 1..Len(cfg) : cfg[k].k = key
    ELSE 0

\* config.set(section, key, value): a dict assignment
ConfigSet(cfg, key, value) ==
    LET at == IndexOfKey(cfg, optionxform(key))
    IN IF at = 0 THEN Append(cfg, [k |-> optionxform(key), v |-> value])
       ELSE [cfg EXCEPT ![at].v = value]

Delimiter == <<"=">>

\* config.write(f, space_around_delimiters=False), as the lines of the file
ConfigWrite(section, cfg) ==
    <<<<"[">> \o section \o <<"]">>>>
    \o [k \in 1..Len(cfg) |-> cfg[k].k \o Delimiter \o cfg[k].v]
    \o <<<<>>>>

\* What a file opened with encoding='utf-8' accepts in one write call
Encodable(line) == Surrogate \notin Range(line)

\* The lines that reach the buffer of such a file when they are written one
\* call each: the call for the first line that cannot be encoded raises.
RECURSIVE Encoded(_)
Encoded(lines) ==
    IF lines = <<>> \/ ~Encodable(Head(lines)) THEN <<>>
    ELSE <<Head(lines)>> \o Encoded(Tail(lines))

(***************************************************************************)
(* Reading a manifest back with a parser built the same way                *)
(* (ConfigParser(), optionxform = str): RawConfigParser._read followed by  *)
(* the interpolation a value goes through when it is fetched.              *)
(***************************************************************************)
IsSpace(c) == c \in {" ", "\t"}

RECURSIVE lstrip(_)
lstrip(s) == IF s # <<>> /\ IsSpace(Head(s)) THEN lstrip(Tail(s)) ELSE s

RECURSIVE rstrip(_)
rstrip(s) ==
    IF s # <<>> /\ IsSpace(Last(s)) THEN rstrip(SubSeq(s, 1, Len(s) - 1)) ELSE s

strip(s) == rstrip(lstrip(s))

CommentPrefixes == {"#", ";"}
Delimiters == {"=", ":"}

\* SECTCRE.match: "[", at least one character, then the last "]"
IsSectionHeader(value) ==
    /\ Len(value) >= 3
    /\ value[1] = "["
    /\ \E k \in 3..Len(value) : value[k] = "]"

SectionHeader(value) ==
    LET close == CHOOSE k \in 3..Len(value) :
                     /\ value[k] = "]"
                     /\ \A m \in (k + 1)..Len(value) : value[m] # "]"
    IN SubSeq(value, 2, close - 1)

HasDelimiter(value) == \E k \in 1..Len(value) : value[k] \in Delimiters

FirstDelimiter(value) ==
    CHOOSE k \in 1..Len(value) :
        /\ value[k] \in Delimiters
        /\ \A m \in 1..(k - 1) : value[m] \notin Delimiters

ParserStart ==
    [sections |-> <<>>, cursect |-> 0, optname |-> PyNone, indent |-> 0,
     parse_error |-> FALSE, raised |-> "none"]

IndexOfSection(sections, name) ==
    IF \E k \in 1..Len(sections) : sections[k].name = name
    THEN CHOOSE k \in 1..Len(sections) : sections[k].name = name
    ELSE 0

\* One iteration of the loop of _read over a line of the file.
ReadLine(st, line) ==
    LET value == strip(line)
        cur_indent == Len(line) - Len(lstrip(line))
        open == st.cursect # 0 /\ st.optname # PyNone /\ st.optname.s # <<>>
        opts == st.sections[st.cursect].opts
        at == IndexOfKey(opts, st.optname.s)
    IN IF st.raised # "none" THEN st
       ELSE IF value # <<>> /\ Head(value) \in CommentPrefixes THEN st
       ELSE IF value = <<>>
       THEN IF open
            THEN [st EXCEPT !.sections[st.cursect].opts[at].v = Append(@, <<>>)]
            ELSE st
       ELSE IF open /\ cur_indent > st.indent
       THEN [st EXCEPT !.sections[st.cursect].opts[at].v = Append(@, value)]
       ELSE IF IsSectionHeader(value)
       THEN LET name == SectionHeader(value)
            IN IF IndexOfSection(st.sections, name) # 0
               THEN [st EXCEPT !.raised = "DuplicateSectionError"]
               ELSE [st EXCEPT !.sections =
                                   Append(@, [name |-> name, opts |-> <<>>]),
                               !.cursect = Len(st.sections) + 1,
                               !.optname = PyNone,
                               !.indent = cur_indent]
       ELSE IF st.cursect = 0
       THEN [st EXCEPT !.raised = "MissingSectionHeaderError"]
       ELSE IF HasDelimiter(value)
       THEN LET d == FirstDelimiter(value)
                optname == optionxform(rstrip(SubSeq(value, 1, d - 1)))
                optval == strip(Drop(value, d))
            IN IF IndexOfKey(opts, optname) # 0
               THEN [st EXCEPT !.raised = "DuplicateOptionError"]
               ELSE [st EXCEPT
                       !.sections[st.cursect].opts =
                            Append(@, [k |-> optname, v |-> <<optval>>]),
                       !.optname = PyStr(optname),
                       !.indent = cur_indent,
                       !.parse_error = @ \/ optname = <<>>]
       ELSE [st EXCEPT !.parse_error = TRUE, !.indent = cur_indent]

RECURSIVE ReadLines(_, _)
ReadLines(st, lines) ==
    IF lines = <<>> THEN st
    ELSE ReadLines(ReadLine(st, Head(lines)), Tail(lines))

\* '\n'.join(val).rstrip() of _join_multiline_values
RECURSIVE JoinLines(_)
JoinLines(val) ==
    IF Len(val) = 1 THEN val[1]
    ELSE val[1] \o <<"\n">> \o JoinLines(Tail(val))

JoinValue(val) ==
    LET joined == JoinLines(val)
        RECURSIVE rs(_)
        rs(s) == IF s # <<>> /\ (IsSpace(Last(s)) \/ Last(s) = "\n")
                 THEN rs(SubSeq(s, 1, Len(s) - 1)) ELSE s
    IN rs(joined)

\* BasicInterpolation.before_get on a value without "%(": "%%" becomes "%",
\* any other "%" raises InterpolationSyntaxError.
RECURSIVE Interpolate(_)
Interpolate(s) ==
    IF s = <<>> THEN PyStr(<<>>)
    ELSE IF s[1] # "%"
    THEN LET rest == Interpolate(Tail(s))
         IN IF rest = PyNone THEN PyNone ELSE PyStr(<<s[1]>> \o rest.s)
    ELSE IF Len(s) >= 2 /\ s[2] = "%"
    THEN LET rest == Interpolate(Drop(s, 2))
         IN IF rest = PyNone THEN PyNone ELSE PyStr(<<"%">> \o rest.s)
    ELSE PyNone

\* The sections and items a reader gets from the lines of a file; status is
\* "ok" or the exception the parser raises.
ConfigRead(lines) ==
    LET st == ReadLines(ParserStart, lines)
        item(o) == [k |-> o.k, v |-> Interpolate(JoinValue(o.v))]
        secs == [n \in 1..Len(st.sections) |->
                    [name |-> st.sections[n].name,
                     opts |-> [m \in 1..Len(st.sections[n].opts) |->
                                  item(st.sections[n].opts[m])]]]
        bad == \E n \in 1..Len(secs) : \E m \in 1..Len(secs[n].opts) :
                   secs[n].opts[m].v = PyNone
    IN IF st.raised # "none" THEN [status |-> st.raised, sections |-> <<>>]
       ELSE IF st.parse_error
       THEN [status |-> "ParsingError", sections |-> <<>>]
       ELSE IF bad
       THEN [status |-> "InterpolationSyntaxError", sections |-> <<>>]
       ELSE [status |-> "ok",
             sections |-> [n \in 1..Len(secs) |->
                 [name |-> secs[n].name,
                  opts |-> [m \in 1..Len(secs[n].opts) |->
                      [k |-> secs[n].opts[m].k, v |-> secs[n].opts[m].v.s]]]]]

\* The name -> version items of section `section` of a file, in order.
ManifestItems(lines, section) ==
    LET r == ConfigRead(lines)
        at == IndexOfSection(r.sections, section)
    IN IF r.status # "ok" \/ at = 0 THEN <<>> ELSE r.sections[at].opts

(***************************************************************************)
(* The run: main (lines 168-241) driving generate_release_ini (89-166).    *)
(***************************************************************************)
CategorySet == Range(Categories)
Category == Categories[ci]

\* The output file of a category as a previous run left it.
OldFile == <<<<"[">> \o Versions \o <<"]">>, <<"Z", "=", "0">>, <<>>>>

\* Variant: generate_release_ini is called whatever the parser returned.
HasEntries_always(es) == TRUE

\* "if entries:" -- lines 187, 196, 205, 214
HasEntries(es) == es # <<>>

\* What main finds at an input path that exists.
Found(es) == IF Len(es) = 0 THEN "no entries" ELSE "entries"

\* Variant: the delay is not skipped before the first request.
NeedsDelay_always(n) == n >= 0

\* time.sleep(0.5), in milliseconds -- line 121
DelayMs == 500

\* "if i > 0:" -- line 120
NeedsDelay(n) == n > 0

\* f"{entry['name']} ({entry['owner']}/{entry['repo']})" -- line 145
FailedLabel(e) ==
    e.name \o <<" ", "(">> \o e.owner \o <<"/">> \o e.repo \o <<")">>

Event(kind, n) == [ev |-> kind, c |-> Category, i |-> n]

Fetched == SumSeq([k \in 1..Len(all_results) |-> all_results[k].total])

runIdle ==
    /\ ci = 1
    /\ input = [c \in CategorySet |-> "unread"]
    /\ entries = <<>>
    /\ i = 0
    /\ tag = PyNone
    /\ printed = ""
    /\ inflight = 0
    /\ slept = 0
    /\ config = <<>>
    /\ success_count = 0
    /\ failure_count = 0
    /\ failed_entries = <<>>
    /\ outfile = [c \in CategorySet |-> OldFile]
    /\ buffer = <<>>
    /\ all_results = <<>>
    /\ summary = PyNone
    /\ log = <<>>

idle ==
    /\ raw = <<>> /\ clean_tag = <<>>
    /\ written = <<>> /\ text = <<>> /\ readback = PyNone

Init ==
    /\ pc = "main"
    /\ runIdle
    /\ idle

\* path.exists() is false: the block of the category is skipped.
SkipMissing ==
    /\ pc = "main" /\ ci <= NumCategories
    /\ input' = [input EXCEPT ![Category] = "missing"]
    /\ ci' = ci + 1
    /\ UNCHANGED <<normVars, rtVars, pc, entries, i, tag, printed, inflight,
                   config, success_count, failure_count, failed_entries,
                   outfile, buffer, all_results, summary, log, slept>>

\* The file exists and parse_ini_file finds no entry in it.
SkipEmpty ==
    /\ pc = "main" /\ ci <= NumCategories
    /\ \E es \in ParsedInputs :
        /\ ~HasEntries(es)
        /\ entries' = es
        /\ input' = [input EXCEPT ![Category] = Found(es)]
    /\ ci' = ci + 1
    /\ UNCHANGED <<normVars, rtVars, pc, i, tag, printed, inflight, config,
                   success_count, failure_count, failed_entries, outfile,
                   buffer, all_results, summary, log, slept>>

\* The file exists and holds entries: generate_release_ini is called and
\* runs up to its loop (lines 91-115).
EnterCategory ==
    /\ pc = "main" /\ ci <= NumCategories
    /\ \E es \in ParsedInputs :
        /\ HasEntries(es)
        /\ Len(es) <= MaxTotalEntries - Fetched
        /\ entries' = es
        /\ input' = [input EXCEPT ![Category] = Found(es)]
    /\ config' = <<>>
    /\ success_count' = 0
    /\ failure_count' = 0
    /\ failed_entries' = <<>>
    /\ i' = 0
    /\ pc' = "loop"
    /\ UNCHANGED <<normVars, rtVars, ci, tag, printed, inflight, outfile,
                   buffer, all_results, summary, log, slept>>

\* time.sleep(0.5) -- line 121
Sleep ==
    /\ pc = "loop" /\ i < Len(entries) /\ NeedsDelay(i)
    /\ log' = Append(log, Event("sleep", i))
    /\ slept' = slept + DelayMs
    /\ pc' = "fetch"
    /\ UNCHANGED <<normVars, rtVars, ci, input, entries, i, tag, printed,
                   inflight, config, success_count, failure_count,
                   failed_entries, outfile, buffer, all_results, summary>>

\* get_latest_tag is called and issues its request -- lines 124, 33-40
Request ==
    /\ \/ pc = "fetch"
       \/ pc = "loop" /\ i < Len(entries) /\ ~NeedsDelay(i)
    /\ inflight' = inflight + 1
    /\ log' = Append(log, Event("request", i))
    /\ pc' = "response"
    /\ UNCHANGED <<normVars, rtVars, ci, input, entries, i, tag, printed,
                   config, success_count, failure_count, failed_entries,
                   outfile, buffer, all_results, summary, slept>>

\* Variant: a fetcher that issues its request again after an HTTP error.
Response_retrying ==
    /\ pc = "response"
    /\ \E o \in Outcomes :
        /\ tag' = get_latest_tag(o)
        /\ printed' = Diagnostic(o)
        /\ log' = Append(log, Event(IF o.kind = "json" /\ o.releases # <<>>
                                    THEN "release" ELSE "failure", i))
        /\ pc' = IF o.kind = "http" THEN "fetch" ELSE "record"
    /\ inflight' = inflight - 1
    /\ UNCHANGED <<normVars, rtVars, ci, input, entries, i, config,
                   success_count, failure_count, failed_entries, outfile,
                   buffer, all_results, summary, slept>>

\* The request ends in some outcome and get_latest_tag returns -- lines 40-53
Response ==
    /\ pc = "response"
    /\ \E o \in Outcomes :
        /\ tag' = get_latest_tag(o)
        /\ printed' = Diagnostic(o)
        /\ log' = Append(log, Event(IF o.kind = "json" /\ o.releases # <<>>
                                    THEN "release" ELSE "failure", i))
    /\ inflight' = inflight - 1
    /\ pc' = "record"
    /\ UNCHANGED <<normVars, rtVars, ci, input, entries, i, config,
                   success_count, failure_count, failed_entries, outfile,
                   buffer, all_results, summary, slept>>

\* lines 125-142: a truthy tag is normalized and set on the parser
RecordSuccess ==
    /\ pc = "record" /\ Truthy(tag)
    /\ tag.ty = "str" /\ ~InvalidInterpolation(Normalize(tag.s))
    /\ config' = ConfigSet(config, entries[i + 1].name, Normalize(tag.s))
    /\ success_count' = success_count + 1
    /\ i' = i + 1
    /\ printed' = ""
    /\ pc' = "loop"
    /\ UNCHANGED <<normVars, rtVars, ci, input, entries, tag, inflight,
                   failure_count, failed_entries, outfile, buffer, all_results,
                   summary, log, slept>>

\* lines 143-146
RecordFailure ==
    /\ pc = "record" /\ ~Truthy(tag)
    /\ failure_count' = failure_count + 1
    /\ failed_entries' = Append(failed_entries, FailedLabel(entries[i + 1]))
    /\ i' = i + 1
    /\ printed' = ""
    /\ pc' = "loop"
    /\ UNCHANGED <<normVars, rtVars, ci, input, entries, tag, inflight,
                   config, success_count, outfile,
                   buffer, all_results, summary, log,
                   slept>>

\* tag.lstrip (line 127) raises AttributeError on a tag that is no string,
\* config.set (line 140) raises ValueError on invalid interpolation syntax;
\* nothing catches either and the run ends with a traceback.
Uncaught ==
    /\ pc = "record" /\ Truthy(tag)
    /\ \/ tag.ty # "str" /\ printed' = "AttributeError"
       \/ tag.ty = "str" /\ InvalidInterpolation(Normalize(tag.s))
          /\ printed' = "ValueError"
    /\ pc' = "crashed"
    /\ UNCHANGED <<normVars, rtVars, ci, input, entries, i, tag, inflight,
                   config, success_count, failure_count, failed_entries,
                   outfile, buffer, all_results, summary, log, slept>>

\* print(f"... {clean_tag}") (line 142) on a standard output that cannot
\* encode the version: config.set and the count are done, the print raises
\* UnicodeEncodeError and nothing catches it.
PrintRaises ==
    /\ pc = "record" /\ Truthy(tag) /\ tag.ty = "str"
    /\ ~InvalidInterpolation(Normalize(tag.s))
    /\ ~Encodable(Normalize(tag.s))
    /\ config' = ConfigSet(config, entries[i + 1].name, Normalize(tag.s))
    /\ success_count' = success_count + 1
    /\ printed' = "UnicodeEncodeError"
    /\ pc' = "crashed"
    /\ UNCHANGED <<normVars, rtVars, ci, input, entries, i, tag, inflight,
                   failure_count, failed_entries, outfile, buffer,
                   all_results, summary, log, slept>>

\* open(output_path, 'w', encoding='utf-8') -- line 149: the loop is over,
\* the output file is truncated and nothing of the manifest is on disk yet
OpenOutput ==
    /\ pc = "loop" /\ i = Len(entries)
    /\ outfile' = [outfile EXCEPT ![Category] = <<>>]
    /\ buffer' = <<>>
    /\ pc' = "write"
    /\ UNCHANGED <<normVars, rtVars, ci, input, entries, i, tag, printed,
                   inflight, config, success_count, failure_count,
                   failed_entries, all_results, summary, log, slept>>

\* config.write(f, space_around_delimiters=False) -- line 150: the lines go
\* to the buffer of the open file, one write call each; the call for the
\* first line utf-8 cannot encode raises UnicodeEncodeError and the lines
\* after it are never written.
WriteConfig ==
    /\ pc = "write"
    /\ buffer' = Encoded(ConfigWrite(SectionName(Category), config))
    /\ pc' = IF buffer' = ConfigWrite(SectionName(Category), config)
             THEN "close" ELSE "unwind"
    /\ UNCHANGED <<normVars, rtVars, ci, input, entries, i, tag, printed,
                   inflight, config, success_count, failure_count,
                   failed_entries, outfile, all_results, summary, log, slept>>

\* the end of the with block (lines 149-150): the file is closed and what
\* the buffer holds reaches the disk, also when config.write raised; the
\* exception then leaves generate_release_ini and main uncaught.
CloseOutput ==
    /\ pc \in {"close", "unwind"}
    /\ outfile' = [outfile EXCEPT ![Category] = buffer]
    /\ buffer' = <<>>
    /\ IF pc = "close"
       THEN /\ log' = Append(log, Event("write", i))
            /\ pc' = "return"
            /\ UNCHANGED printed
       ELSE /\ printed' = "UnicodeEncodeError"
            /\ pc' = "crashed"
            /\ UNCHANGED log
    /\ UNCHANGED <<normVars, rtVars, ci, input, entries, i, tag, inflight,
                   config, success_count, failure_count, failed_entries,
                   all_results, summary, slept>>

\* lines 160-166 and all_results.append(result): generate_release_ini
\* returns and its local variables are gone
ReturnResult ==
    /\ pc = "return"
    /\ all_results' = Append(all_results,
            [category |-> Category, total |-> Len(entries),
             success |-> success_count, failed |-> failure_count,
             failed_entries |-> failed_entries])
    /\ config' = <<>>
    /\ success_count' = 0
    /\ failure_count' = 0
    /\ failed_entries' = <<>>
    /\ i' = 0
    /\ tag' = PyNone
    /\ ci' = ci + 1
    /\ pc' = "main"
    /\ UNCHANGED <<normVars, rtVars, input, entries, printed, inflight,
                   outfile, buffer, summary, log, slept>>

\* lines 219-241: the final summary
Summary ==
    /\ pc = "main" /\ ci > NumCategories
    /\ summary' = PyStr(
          <<SumSeq([k \in 1..Len(all_results) |-> all_results[k].total]),
            SumSeq([k \in 1..Len(all_results) |-> all_results[k].success]),
            SumSeq([k \in 1..Len(all_results) |-> all_results[k].failed])>>)
    /\ pc' = "done"
    /\ UNCHANGED <<normVars, rtVars, ci, input, entries, i, tag, printed,
                   inflight, config, success_count, failure_count,
                   failed_entries, outfile, buffer, all_results, log, slept>>

Next ==
    \/ SkipMissing
    \/ SkipEmpty
    \/ EnterCategory
    \/ Sleep
    \/ Request
    \/ Response
    \/ RecordSuccess
    \/ RecordFailure
    \/ Uncaught
    \/ PrintRaises
    \/ OpenOutput
    \/ WriteConfig
    \/ CloseOutput
    \/ ReturnResult
    \/ Summary

Spec == Init /\ [][Next]_vars

(***************************************************************************)
(* The Tag Normalizer on its own: a raw tag that passed "if tag:" goes     *)
(* through lines 127-139.  Raw tags are some leading "v"s followed by      *)
(* dash-separated parts of the lengths below.                              *)
(***************************************************************************)
PartLens == {0, 1, 7, 8, 20, 21, 31}
Letters == <<"a", "b", "c">>
Part(n) == [k \in 1..n |-> Letters[((k - 1) % 3) + 1]]

RECURSIVE JoinDash(_)
JoinDash(lens) ==
    IF Len(lens) = 1 THEN Part(lens[1])
    ELSE Part(lens[1]) \o <<"-">> \o JoinDash(Tail(lens))

RawTags ==
    {[k \in 1..lead |-> "v"] \o JoinDash(lens) :
        lead \in 0..MaxLeadV, lens \in SeqsUpTo(PartLens, MaxParts) \ {<<>>}}

InitNorm ==
    /\ pc = "tag"
    /\ raw \in RawTags
    /\ clean_tag = <<>>
    /\ written = <<>> /\ text = <<>> /\ readback = PyNone
    /\ runIdle

NormalizeTag ==
    /\ pc = "tag" /\ Truthy(PyStr(raw))
    /\ clean_tag' = Normalize(raw)
    /\ pc' = "normalized"
    /\ UNCHANGED <<ci, input, entries, i, tag, printed, inflight, config,
                   success_count, failure_count, failed_entries, outfile,
                   buffer, all_results, summary, log, raw, rtVars, slept>>

NextNorm == NormalizeTag

SpecNorm == InitNorm /\ [][NextNorm]_vars

(***************************************************************************)
(* The Manifest Writer on its own: options are set on the parser section,  *)
(* the section is written, and the file is read back by a parser built the *)
(* same way.  Keys are entry names (any characters but "]"), values are    *)
(* normalized versions.                                                    *)
(***************************************************************************)
KeyChars == {"A", "a", "=", ":", " ", "#"}
ValueChars == {"1", "%"}
Keys == SeqsUpTo(KeyChars, MaxKeyLen) \ {<<>>}
Values == SeqsUpTo(ValueChars, 2)

InitRT ==
    /\ pc = "config"
    /\ written = <<>>
    /\ text = <<>>
    /\ readback = PyNone
    /\ raw = <<>> /\ clean_tag = <<>>
    /\ runIdle

\* config.set(section_name, entry['name'], clean_tag) -- line 140
SetOption ==
    /\ pc = "config"
    /\ \E key \in Keys, value \in Values :
        /\ IndexOfKey(written, optionxform(key)) # 0 \/ Len(written) < MaxKeys
        /\ ~InvalidInterpolation(value)
        /\ written' = ConfigSet(written, key, value)
    /\ UNCHANGED <<runVars, normVars, text, readback>>

\* config.write(f, space_around_delimiters=False) -- lines 149-150
WriteFile ==
    /\ pc = "config"
    /\ text' = ConfigWrite(SectionName("sysmodules"), written)
    /\ pc' = "written"
    /\ UNCHANGED <<ci, input, entries, i, tag, printed, inflight, config,
                   success_count, failure_count, failed_entries, outfile,
                   buffer, all_results, summary, log, normVars, written,
                   readback, slept>>

ReadFile ==
    /\ pc = "written"
    /\ readback' = ConfigRead(text)
    /\ pc' = "read"
    /\ UNCHANGED <<ci, input, entries, i, tag, printed, inflight, config,
                   success_count, failure_count, failed_entries, outfile,
                   buffer, all_results, summary, log, normVars, written,
                   text, slept>>

NextRT ==
    \/ SetOption
    \/ WriteFile
    \/ ReadFile

SpecRT == InitRT /\ [][NextRT]_vars

(***************************************************************************)
(* Properties.                                                             *)
(***************************************************************************)
Positions(ev, c) == {k \in 1..Len(log) : log[k].ev = ev /\ log[k].c = c}
Answers(c) == Positions("release", c) \cup Positions("failure", c)
InCategory == pc \in {"loop", "fetch", "response", "record"}

\* C1: when generate_release_ini has written the manifest of a category,
\* every entry is either a success (its name is a key of the written manifest
\* and its label is not in failed_entries) or a failure (its label is in
\* failed_entries and its name is no key of the manifest), success + failed
\* = total, and the manifest has exactly `success` keys.
C1_EveryEntryAccountedOnce ==
    pc = "return" =>
        LET items == ManifestItems(outfile[Category], SectionName(Category))
            keys == {items[k].k : k \in 1..Len(items)}
            failed == Range(failed_entries)
        IN /\ \A n \in 1..Len(entries) :
                \/ /\ entries[n].name \in keys
                   /\ FailedLabel(entries[n]) \notin failed
                \/ /\ FailedLabel(entries[n]) \in failed
                   /\ entries[n].name \notin keys
           /\ success_count + failure_count = Len(entries)
           /\ Len(failed_entries) = failure_count
           /\ Len(items) = success_count

\* C2: the normalized version of every raw tag has at most 30 characters.
C2_LengthBound == pc = "normalized" => Len(clean_tag) <= 30

\* C3: no failure of an entry propagates above get_latest_tag: whatever the
\* remote end answers, the run is never ended by an uncaught exception.
C3_RunNeverAborts == pc # "crashed"

\* C10: reading the written manifest back with the same parser yields the
\* mapping that was written: one section, the same keys, values and order.
C10_RoundTrip ==
    pc = "read" =>
        readback = [status |-> "ok",
                    sections |-> <<[name |-> Versions, opts |-> written]>>]

Requests == {k \in 1..Len(log) : log[k].ev = "request"}
IsAnswer(e) == e.ev \in {"release", "failure"}
ResultOf(c) == CHOOSE k \in 1..Len(all_results) : all_results[k].category = c
HasResult(c) == \E k \in 1..Len(all_results) : all_results[k].category = c

\* C4: the fetcher never retries and every failure returns None: no entry is
\* requested twice, every request issued is answered once or still in
\* flight, a call that ended in an HTTP error, another exception or an empty
\* release array returned None, and when the run is done every entry of
\* every processed category has been requested exactly once.
C4_OneRequestPerEntry ==
    /\ \A a, b \in Requests :
          a # b => <<log[a].c, log[a].i>> # <<log[b].c, log[b].i>>
    /\ Cardinality(Requests)
          = Cardinality({k \in 1..Len(log) : IsAnswer(log[k])}) + inflight
    /\ pc = "record" /\ Last(log).ev = "failure" => tag = PyNone
    /\ pc = "record" /\ printed # "" => tag = PyNone
    /\ pc = "done" =>
          \A k \in 1..Len(all_results) :
            \A n \in 0..(all_results[k].total - 1) :
              Cardinality({r \in Requests : log[r].c = all_results[k].category
                                            /\ log[r].i = n}) = 1

C4_Witness ==
    /\ pc = "done"
    /\ \E k \in 1..Len(all_results) :
          all_results[k].failed >= 1 /\ all_results[k].success >= 1

\* C5: a category's output file is in a state this run wrote only after
\* every fetch of that category was answered, so in every state the run can
\* be killed in, every output file the run has touched holds the results of
\* a whole category: while the category is in its loop the file is still as
\* it was before the run, and a file that is no longer as it was is a
\* complete manifest (section header first, closing empty line last) written
\* after the answers of all entries of its category, with one line for every
\* option the parser of the category holds.
C5_WrittenFilesAreWhole ==
    /\ InCategory => outfile[Category] = OldFile
    /\ \A c \in CategorySet :
          outfile[c] # OldFile =>
              /\ Cardinality(Answers(c))
                    = IF HasResult(c) THEN all_results[ResultOf(c)].total
                      ELSE Len(entries)
              /\ Len(outfile[c]) >= 2
              /\ Head(outfile[c]) = <<"[">> \o SectionName(c) \o <<"]">>
              /\ Last(outfile[c]) = <<>>
              /\ ~HasResult(c) =>
                    outfile[c] = ConfigWrite(SectionName(c), config)

\* C6: an output manifest is written only for a category whose input file
\* exists and yielded at least one entry; a category whose input file is
\* missing or yields no entry is skipped without error: its output file is
\* left as it was, nothing is fetched for it and no result is recorded.
C6_WrittenOnlyWithEntries ==
    \A c \in CategorySet :
        /\ outfile[c] # OldFile => input[c] = "entries"
        /\ HasResult(c) => input[c] = "entries"
        /\ input[c] \in {"missing", "no entries"} =>
              /\ outfile[c] = OldFile
              /\ ~HasResult(c)
              /\ \A k \in 1..Len(log) : log[k].c # c
              /\ pc = "crashed" => Category # c

C6_Witness ==
    /\ pc = "done"
    /\ \E a, b, c \in CategorySet :
          /\ input[a] = "missing" /\ outfile[a] = OldFile
          /\ input[b] = "no entries" /\ outfile[b] = OldFile
          /\ input[c] = "entries" /\ outfile[c] # OldFile

\* C7: inside a category one delay precedes every fetch but the first: a
\* request of index i > 0 comes right after one sleep, which comes right after
\* the answer to request i - 1 of the same category; the request of index 0
\* is preceded by no sleep; nothing is in flight while the run sleeps; and
\* every sleep lasts 500 ms.
C7_DelayBetweenFetches ==
    /\ \A k \in 1..Len(log) :
          /\ log[k].ev = "request" /\ log[k].i > 0 =>
                /\ k >= 3
                /\ log[k - 1] = [ev |-> "sleep", c |-> log[k].c, i |-> log[k].i]
                /\ IsAnswer(log[k - 2])
                /\ log[k - 2].c = log[k].c /\ log[k - 2].i = log[k].i - 1
          /\ log[k].ev = "request" /\ log[k].i = 0 =>
                k = 1 \/ log[k - 1].ev # "sleep"
          /\ log[k].ev = "sleep" =>
                /\ log[k].i > 0
                /\ k >= 2 /\ IsAnswer(log[k - 1])
    /\ pc = "fetch" => inflight = 0 /\ Last(log).ev = "sleep"
    /\ slept = 500 * Cardinality({k \in 1..Len(log) : log[k].ev = "sleep"})

C7_Witness ==
    /\ pc = "done"
    /\ \E a, b \in Requests :
          /\ a < b
          /\ log[a].i = 1 /\ log[b].i = 0
          /\ log[b - 1].ev = "write"

\* The position of a category in the order the claims name.
Rank(c) ==
    CASE c = "sysmodules" -> 1
      [] c = "overlays" -> 2
      [] c = "apps" -> 3
      [] c = "emulatoren" -> 4

\* C8: fetches are sequential and totally ordered: at most one request is in
\* flight, every request is answered before anything else happens, the
\* categories are fetched in the order sysmodules, overlays, apps,
\* emulatoren, and the entries of a category in the order of their sections.
C8_SequentialOrderedFetches ==
    /\ inflight \in {0, 1}
    /\ inflight = 1 <=> pc = "response"
    /\ \A k \in 1..(Len(log) - 1) :
          \/ Rank(log[k].c) < Rank(log[k + 1].c)
          \/ log[k].c = log[k + 1].c /\ log[k].i <= log[k + 1].i
    /\ \A k \in Requests :
          \/ k = Len(log) /\ pc = "response"
          \/ k < Len(log) /\ IsAnswer(log[k + 1])
                /\ log[k + 1].c = log[k].c /\ log[k + 1].i = log[k].i
    /\ InCategory =>
          /\ \A n \in 1..(Len(entries) - 1) :
                entries[n].section < entries[n + 1].section
          /\ \A k \in Positions("request", Category) : log[k].i < Len(entries)

C8_Witness ==
    /\ pc = "done"
    /\ \E a, b, c \in Requests :
          /\ a < b /\ b < c
          /\ log[a].c = log[b].c /\ log[a].i = 0 /\ log[b].i = 1
          /\ log[c].c # log[a].c

\* C9: with s the raw tag without its leading "v" characters: s is returned
\* unchanged when it has at most 30 characters; otherwise the result is the
\* second-to-last dash-separated part, a dash and the first 7 characters of
\* the last part when s holds a dash and its last part has more than 20
\* characters, and the first 30 characters of s in every other case.
C9_LongTagRule ==
    pc = "normalized" =>
        LET lead == CHOOSE k \in 0..Len(raw) :
                        /\ \A m \in 1..k : raw[m] = "v"
                        /\ k < Len(raw) => raw[k + 1] # "v"
            s == SubSeq(raw, lead + 1, Len(raw))
            dashes == {k \in 1..Len(s) : s[k] = "-"}
            ld == CHOOSE k \in dashes : \A m \in dashes : m <= k
            before == {k \in dashes : k < ld} \cup {0}
            pd == CHOOSE k \in before : \A m \in before : m <= k
        IN IF Len(s) <= 30 THEN clean_tag = s
           ELSE IF dashes # {} /\ Len(s) - ld > 20
           THEN clean_tag = SubSeq(s, pd + 1, ld - 1) \o <<"-">>
                                \o SubSeq(s, ld + 1, ld + 7)
           ELSE clean_tag = SubSeq(s, 1, 30)

C9_Witness ==
    /\ pc = "normalized"
    /\ Len(raw) > 40
    /\ raw[1] = "v"
    /\ Len(clean_tag) = 9
    /\ clean_tag[2] = "-"

====
